---- MODULE Spec2Model ----
(***************************************************************************)
(* Model of the mzpricer core (mzpricer-core/src/pricer.rs): the binomial  *)
(* lattice engine, the Newton implied-volatility solver, the finite-       *)
(* difference Greeks and the batch entry points.                            *)
(*                                                                         *)
(* f64 values are modelled as fixed-point integers (Scale units per 1.0)   *)
(* together with the three IEEE special values +inf, -inf and NaN.         *)
(***************************************************************************)
EXTENDS Integers, Sequences, FiniteSets, TLC

\* ------------------------------------------------------------------------
\* f64: fixed-point reals with IEEE specials
\* ------------------------------------------------------------------------

\* Units per 1.0 of the fixed-point representation of f64.
Scale == 1000000

\* Largest finite magnitude (1000.0); a larger result overflows to infinity.
MaxFin == 1000 * Scale

PInf == MaxFin + 1
NInf == -(MaxFin + 1)
NaN == MaxFin + 2

\* The literal x.0 as an f64.
F(x) == x * Scale

IsNaN(a) == a = NaN
IsInf(a) == a = PInf \/ a = NInf
IsFin(a) == a >= -MaxFin /\ a <= MaxFin

Abs(x) == IF x < 0 THEN -x ELSE x
Sgn(x) == IF x < 0 THEN -1 ELSE IF x > 0 THEN 1 ELSE 0

\* A finite result, or the infinity it overflows to.
Fix(x) == IF x > MaxFin THEN PInf ELSE IF x < -MaxFin THEN NInf ELSE x

FNeg(a) == IF a = NaN THEN NaN ELSE -a

\* f64 addition.
FAdd(a, b) ==
    IF a = NaN \/ b = NaN THEN NaN
    ELSE IF a = PInf THEN (IF b = NInf THEN NaN ELSE PInf)
    ELSE IF a = NInf THEN (IF b = PInf THEN NaN ELSE NInf)
    ELSE IF b = PInf \/ b = NInf THEN b
    ELSE Fix(a + b)

FSub(a, b) == FAdd(a, FNeg(b))

\* The high and low parts of the product of two magnitudes given in three
\* limbs of 1000 each, so that no intermediate product leaves the machine
\* integers.
Limbs(a2, a1, a0, b2, b1, b0) ==
    [ H |-> a2 * b2 * 1000 + a2 * b1 + a1 * b2,
      L |-> a2 * b0 + a1 * b1 + a0 * b2
            + ((a1 * b0 + a0 * b1 + ((a0 * b0) \div 1000)) \div 1000) ]

\* The product from its high and low parts, or the infinity it overflows to.
Join(hl) == IF hl.H > 1000000 THEN PInf ELSE Fix(hl.H * 1000 + hl.L)

\* |a| * |b| for finite magnitudes.
MulMag(a, b) ==
    Join(Limbs(a \div 1000000, (a \div 1000) % 1000, a % 1000,
               b \div 1000000, (b \div 1000) % 1000, b % 1000))

\* The magnitude m with the sign sg (of a product or quotient).
WithSign(sg, m) == IF sg < 0 THEN -m ELSE m

\* f64 multiplication.
FMul(a, b) ==
    IF a = NaN \/ b = NaN THEN NaN
    ELSE IF IsInf(a) \/ IsInf(b)
         THEN (IF a = 0 \/ b = 0 THEN NaN
               ELSE IF Sgn(a) * Sgn(b) > 0 THEN PInf ELSE NInf)
    ELSE WithSign(Sgn(a) * Sgn(b), MulMag(Abs(a), Abs(b)))

\* The next k decimal digits of r / b appended to acc (long division).
RECURSIVE DivDigits(_, _, _, _)
DivDigits(r, b, k, acc) ==
    IF k = 0 THEN acc
    ELSE DivDigits((r * 10) % b, b, k - 1, acc * 10 + ((r * 10) \div b))

\* |a| / |b| for a divisor small enough for the long division.
DivLong(a, b) ==
    IF a \div b > 1000 THEN PInf ELSE Fix(DivDigits(a % b, b, 6, a \div b))

\* |a| / |b| for finite magnitudes, b > 0: a large divisor loses its last
\* digit (and the dividend with it) before the long division.
DivMag(a, b) ==
    IF b > 200000000 THEN DivLong(a \div 10, b \div 10) ELSE DivLong(a, b)

\* f64 division.
FDiv(a, b) ==
    IF a = NaN \/ b = NaN THEN NaN
    ELSE IF IsInf(a)
         THEN (IF IsInf(b) THEN NaN
               ELSE IF Sgn(a) * (IF b < 0 THEN -1 ELSE 1) > 0 THEN PInf ELSE NInf)
    ELSE IF IsInf(b) THEN 0
    ELSE IF b = 0
         THEN (IF a = 0 THEN NaN ELSE IF a > 0 THEN PInf ELSE NInf)
    ELSE WithSign(Sgn(a) * Sgn(b), DivMag(Abs(a), Abs(b)))

\* A maximum that a NaN operand poisons, which f64::max is not.
FMaxPropagating(a, b) ==
    IF a = NaN \/ b = NaN THEN NaN
    ELSE IF a >= b THEN a ELSE b

\* f64::max: a NaN operand is ignored.
FMax(a, b) ==
    IF a = NaN THEN b
    ELSE IF b = NaN THEN a
    ELSE IF a >= b THEN a ELSE b

\* f64::abs.
FAbs(a) == IF a = NaN THEN NaN ELSE Abs(a)

\* a < b on f64: false when either is NaN.
FLt(a, b) == a # NaN /\ b # NaN /\ a < b

\* Integer square root by bisection: the largest r in lo..hi with r*r <= x.
RECURSIVE ISqrt(_, _, _)
ISqrt(x, lo, hi) ==
    IF lo >= hi THEN lo
    ELSE IF ((lo + hi + 1) \div 2) * ((lo + hi + 1) \div 2) <= x
         THEN ISqrt(x, (lo + hi + 1) \div 2, hi)
         ELSE ISqrt(x, lo, ((lo + hi + 1) \div 2) - 1)

\* f64::sqrt.
FSqrt(a) ==
    IF a = NaN \/ a < 0 THEN NaN
    ELSE IF a = PInf THEN PInf
    ELSE IF a <= 2000 THEN ISqrt(a * 1000000, 0, 46340)
    ELSE IF a <= 200000 THEN ISqrt(a * 10000, 0, 46340) * 10
    ELSE IF a <= 20000000 THEN ISqrt(a * 100, 0, 46340) * 100
    ELSE ISqrt(a, 0, 46340) * 1000

\* exp on |x| <= 1/8 by its Taylor polynomial of degree 6 (Horner form).
\* One Horner step: 1 + x * h / n.
Horner(x, h, n) == F(1) + (FMul(x, h) \div n)

ExpSmall(x) ==
    Horner(x, Horner(x, Horner(x, Horner(x, Horner(x, Horner(x, F(1), 6), 5), 4), 3), 2), 1)

\* exp on a finite argument: halve the argument until it is small, then
\* square back.
Square(h) == FMul(h, h)

RECURSIVE ExpFin(_)
ExpFin(x) ==
    IF Abs(x) <= Scale \div 8 THEN ExpSmall(x) ELSE Square(ExpFin(x \div 2))

\* f64::exp.
FExp(a) ==
    IF a = NaN THEN NaN
    ELSE IF a = PInf THEN PInf
    ELSE IF a = NInf THEN 0
    ELSE IF a > 7 * Scale THEN PInf
    ELSE IF a < -(14 * Scale) THEN 0
    ELSE ExpFin(a)

\* f64::powi for an exponent n >= 0 (n as i32 of a usize).
RECURSIVE FPowi(_, _)
FPowi(a, n) == IF n = 0 THEN F(1) ELSE FMul(a, FPowi(a, n - 1))

\* ------------------------------------------------------------------------
\* Value types
\* ------------------------------------------------------------------------

OptionType == {"Call", "Put"}

PriceError == {"None", "NonConvergence", "BadParams"}

\* TimeDuration::to_years: value / factor.
to_years(t) == FDiv(t.value, t.factor)

\* ------------------------------------------------------------------------
\* Lattice engine
\* ------------------------------------------------------------------------

\* A faulty payoff: sign * s_i + base, not floored at zero.
PayoffUnfloored(sign, base, s_i) == FAdd(FMul(sign, s_i), base)

\* The payoff (sign * s_i + base).max(0.0).
Payoff(sign, base, s_i) == FMax(FAdd(FMul(sign, s_i), base), 0)

\* The risk-neutral probability p = (a - d) / (u - d).
RiskNeutralP(a, u, d) == FDiv(FSub(a, d), FSub(u, d))

\* The lattice quantities once u, d, a and df are known.
LatticeRecord(s, k, cp, u, d, a, df) ==
    [ s    |-> s,
      sign |-> IF cp = "Call" THEN F(1) ELSE -F(1),
      base |-> IF cp = "Call" THEN FNeg(k) ELSE k,
      u    |-> u,
      d    |-> d,
      p    |-> RiskNeutralP(a, u, d),
      df   |-> df ]

\* The lattice quantities once u, a and df are known: d = 1/u.
LatticeFromU(s, k, cp, u, a, df) == LatticeRecord(s, k, cp, u, FDiv(F(1), u), a, df)

\* The per-call lattice quantities computed before the buffers are filled:
\* payoff sign and base, u = exp(sigma * sqrt(delta_t)), d, a = exp(r * delta_t),
\* p and the discount factor df = exp(-r * delta_t).
LatticeParams(s, k, delta_t, r, sigma, cp) ==
    LatticeFromU(s, k, cp,
                 FExp(FMul(sigma, FSqrt(delta_t))),
                 FExp(FMul(r, delta_t)),
                 FExp(FMul(FNeg(r), delta_t)))

\* Step 1: stock_price[n] = s * u^n, then stock_price[i] = stock_price[i+1] * (d/u)
\* for i descending from n-1 to 0.
RECURSIVE StockFill(_, _, _, _)
StockFill(stock_price, ratio, i, n) ==
    IF i < 0 THEN stock_price
    ELSE StockFill([stock_price EXCEPT ![i] = FMul(stock_price[i + 1], ratio)],
                   ratio, i - 1, n)

TerminalStock(q, n) ==
    StockFill([i \in 0..n |-> IF i = n THEN FMul(q.s, FPowi(q.u, n)) ELSE 0],
              FDiv(q.d, q.u), n - 1, n)

\* The payoffs of a buffer of stock prices.
PayoffAll(q, stock_price, n) ==
    [i \in 0..n |-> Payoff(q.sign, q.base, stock_price[i])]

\* Step 2: option_price[i] = payoff at stock_price[i], i in 0..=n.
TerminalValue(q, n) == PayoffAll(q, TerminalStock(q, n), n)

\* A faulty body of the inner loop: the two values read are taken one for
\* the other in the continuation value.
NodeValueSwapped(q, V, i, j) ==
    FMax(Payoff(q.sign, q.base,
                FMul(FMul(q.s, FPowi(q.u, j)), FPowi(q.d, (i - 1) - j))),
         FMul(FAdd(FMul(q.p, V[j]), FMul(FSub(F(1), q.p), V[j + 1])), q.df))

\* The body of the inner loop of step 3 at (i, j): the value written to
\* option_price[j].
NodeValue(q, V, i, j) ==
    LET continuation_value ==
            FMul(FAdd(FMul(q.p, V[j + 1]), FMul(FSub(F(1), q.p), V[j])), q.df)
        time_step == i - 1
        num_down_moves == time_step - j
        s_i == FMul(FMul(q.s, FPowi(q.u, j)), FPowi(q.d, num_down_moves))
        intrinsic_value == Payoff(q.sign, q.base, s_i)
    IN  FMax(intrinsic_value, continuation_value)

\* for j in 0..i: option_price[j] = NodeValue, in place, j ascending.
RECURSIVE InnerLoop(_, _, _, _)
InnerLoop(q, V, i, j) ==
    IF j >= i THEN V
    ELSE InnerLoop(q, [V EXCEPT ![j] = NodeValue(q, V, i, j)], i, j + 1)

\* for i in (1..=n).rev(): the inner loop.
RECURSIVE OuterLoop(_, _, _)
OuterLoop(q, V, i) ==
    IF i < 1 THEN V ELSE OuterLoop(q, InnerLoop(q, V, i, 0), i - 1)

\* Steps 1 to 3 on the lattice quantities q: the value left in option_price[0].
LatticeRun(q, n) == OuterLoop(q, TerminalValue(q, n), n)[0]

\* option_price_: the American option price of the n-step CRR lattice.
option_price_(s, k, delta_t, r, sigma, cp, n) ==
    LatticeRun(LatticeParams(s, k, delta_t, r, sigma, cp), n)

\* option_price_scalar.
option_price_scalar(s, k, t, r, sigma, cp, precision) ==
    option_price_(s, k, FDiv(to_years(t), F(precision)), r, sigma, cp, precision)


\* ------------------------------------------------------------------------
\* Sensitivities: vega, theta
\* ------------------------------------------------------------------------

\* One lattice evaluation: its value together with the record of its
\* arguments (the evaluation log used to count and inspect evaluations).
Eval(s, k, delta_t, r, sigma, cp, n) ==
    [ val   |-> option_price_(s, k, delta_t, r, sigma, cp, n),
      calls |-> << [ s |-> s, k |-> k, delta_t |-> delta_t, r |-> r,
                     sigma |-> sigma, cp |-> cp, n |-> n ] >> ]

\* The centred difference of two evaluations bump apart on each side.
CentredDifference(option_price_bump_up, option_price_bump_down, bump) ==
    [ val   |-> FDiv(FSub(option_price_bump_up.val, option_price_bump_down.val),
                     FMul(F(2), bump)),
      calls |-> option_price_bump_up.calls \o option_price_bump_down.calls ]

\* vega_iv_finder: centred difference in sigma, two lattice evaluations.
vega_iv_finder(s, k, t, r, sigma, cp, n, bump) ==
    CentredDifference(
        Eval(s, k, FDiv(to_years(t), F(n)), r, FAdd(sigma, bump), cp, n),
        Eval(s, k, FDiv(to_years(t), F(n)), r, FSub(sigma, bump), cp, n),
        bump)

\* v / 100.
PerPercent(v) == [ val |-> FDiv(v.val, F(100)), calls |-> v.calls ]

\* vega: vega_iv_finder per 1% change in volatility.
vega(s, k, t, r, sigma, cp, n, bump) ==
    PerPercent(vega_iv_finder(s, k, t, r, sigma, cp, n, bump))

\* Option<f64>.
NoPrice == << >>
Some(p) == << p >>

\* The per-step interval of theta's bumped evaluation.
theta_delta_t1(t, precision) ==
    FAdd(FDiv(to_years(t), F(precision)), FDiv(F(1), F(365)))

\* price_0 of theta: the precomputed price if there is one, else an evaluation.
theta_price_0(s, k, delta_t0, r, sigma, cp, precision, price) ==
    IF price # NoPrice
    THEN [ val |-> price[1], calls |-> << >> ]
    ELSE Eval(s, k, delta_t0, r, sigma, cp, precision)

\* (price_new - price_0) / (1/365).
ForwardDifference(price_0, price_new) ==
    [ val   |-> FDiv(FSub(price_new.val, price_0.val), FDiv(F(1), F(365))),
      calls |-> price_0.calls \o price_new.calls ]

\* theta: forward difference with an optional precomputed base price.
theta(s, k, t, r, sigma, cp, precision, price) ==
    ForwardDifference(
        theta_price_0(s, k, FDiv(to_years(t), F(precision)), r, sigma, cp,
                      precision, price),
        Eval(s, k, theta_delta_t1(t, precision), r, sigma, cp, precision))

\* S_BUMP and SIGMA_BUMP of greeks, and VEGA_BUMP of option_iv_: 0.001.
S_BUMP == Scale \div 1000
SIGMA_BUMP == Scale \div 1000
VEGA_BUMP == Scale \div 1000

\* The Greeks record of one element from its evaluations.
GreeksOf(price_0, price_up, price_down, vega_val, theta_val) ==
    [ val   |-> [ delta |-> FDiv(FSub(price_up.val, price_down.val),
                                 FMul(F(2), S_BUMP)),
                  gamma |-> FDiv(FAdd(FSub(price_up.val, FMul(F(2), price_0.val)),
                                      price_down.val),
                                 FMul(S_BUMP, S_BUMP)),
                  vega  |-> vega_val.val,
                  theta |-> theta_val.val ],
      calls |-> price_0.calls \o price_up.calls \o price_down.calls
                \o vega_val.calls \o theta_val.calls ]

\* A faulty body of the loop of greeks: theta is not handed price_0 and
\* evaluates it again.
greeks_theta_recomputes(price_0, s, k, t, r, sigma, cp, precision) ==
    GreeksOf(price_0,
             Eval(FAdd(s, S_BUMP), k, FDiv(to_years(t), F(precision)), r, sigma, cp,
                  precision),
             Eval(FSub(s, S_BUMP), k, FDiv(to_years(t), F(precision)), r, sigma, cp,
                  precision),
             vega(s, k, t, r, sigma, cp, precision, SIGMA_BUMP),
             theta(s, k, t, r, sigma, cp, precision, NoPrice))

\* The body of the loop of greeks after price_0: theta is handed price_0.
greeks_after_price_0(price_0, s, k, t, r, sigma, cp, precision) ==
    GreeksOf(price_0,
             Eval(FAdd(s, S_BUMP), k, FDiv(to_years(t), F(precision)), r, sigma, cp,
                  precision),
             Eval(FSub(s, S_BUMP), k, FDiv(to_years(t), F(precision)), r, sigma, cp,
                  precision),
             vega(s, k, t, r, sigma, cp, precision, SIGMA_BUMP),
             theta(s, k, t, r, sigma, cp, precision, Some(price_0.val)))

\* The body of the loop of greeks for one element.
greeks_element(s, k, t, r, sigma, cp, precision) ==
    greeks_after_price_0(
        Eval(s, k, FDiv(to_years(t), F(precision)), r, sigma, cp, precision),
        s, k, t, r, sigma, cp, precision)

\* ------------------------------------------------------------------------
\* Implied-volatility solver (option_iv_)
\* ------------------------------------------------------------------------

MAX_ITER == 100

\* SENSITIVITY = 0.00001.
SENSITIVITY == Scale \div 100000

\* vega_value.abs() < 1e-10: 1e-10 lies below one unit of the fixed-point
\* representation, so only a zero magnitude is below it.
VegaTooSmall(vega_value) == FLt(FAbs(vega_value), 1)

\* The solver's locals once delta_t is known: the first model price.
IvLocals(price, s, k, t, r, candidate_sigma, cp, n, delta_t) ==
    [ price |-> price, s |-> s, k |-> k, t |-> t, r |-> r, cp |-> cp, n |-> n,
      delta_t         |-> delta_t,
      candidate_sigma |-> candidate_sigma,
      test_price      |-> option_price_(s, k, delta_t, r, candidate_sigma, cp, n),
      iter            |-> 0,
      updates         |-> 0,
      evals           |-> 1,
      status          |-> "run" ]

\* The solver's state before the loop.
IvInit(price, s, k, t, r, candidate_sigma, cp, n) ==
    IvLocals(price, s, k, t, r, candidate_sigma, cp, n, FDiv(to_years(t), F(n)))

\* The Newton update to sigma1 and its model price.
IvUpdate(st, vega_value, sigma1) ==
    [st EXCEPT !.candidate_sigma = sigma1,
               !.test_price = option_price_(st.s, st.k, st.delta_t, st.r, sigma1,
                                            st.cp, st.n),
               !.iter = st.iter + 1,
               !.updates = st.updates + 1,
               !.evals = st.evals + Len(vega_value.calls) + 1]

\* A faulty pass: the Newton update made with the sign of the step reversed.
IvAfterVegaReversed(st, error, vega_value) ==
    IF VegaTooSmall(vega_value.val)
    THEN [st EXCEPT !.status = "vega", !.evals = st.evals + Len(vega_value.calls)]
    ELSE IvUpdate(st, vega_value,
                  FAdd(st.candidate_sigma, FDiv(error, vega_value.val)))

\* The pass after vega_value is computed: return on a vanishing vega, else
\* update.
IvAfterVega(st, error, vega_value) ==
    IF VegaTooSmall(vega_value.val)
    THEN [st EXCEPT !.status = "vega", !.evals = st.evals + Len(vega_value.calls)]
    ELSE IvUpdate(st, vega_value,
                  FSub(st.candidate_sigma, FDiv(error, vega_value.val)))

\* A faulty pass: `loop` in place of `for _ in 0..MAX_ITER`.
IvIterUncapped(st) ==
    IF FLt(FAbs(FSub(st.test_price, st.price)), SENSITIVITY)
    THEN [st EXCEPT !.status = "converged"]
    ELSE IvAfterVega(st, FSub(st.test_price, st.price),
                     vega_iv_finder(st.s, st.k, st.t, st.r, st.candidate_sigma,
                                    st.cp, st.n, VEGA_BUMP))

\* A faulty pass: vega is estimated before the convergence check, so a
\* converged pass has paid for the two evaluations of the estimate.
IvIterVegaFirst(st) ==
    IF st.iter >= MAX_ITER THEN [st EXCEPT !.status = "exhausted"]
    ELSE IF FLt(FAbs(FSub(st.test_price, st.price)), SENSITIVITY)
         THEN [st EXCEPT !.status = "converged",
                         !.evals = st.evals
                                   + Len(vega_iv_finder(st.s, st.k, st.t, st.r,
                                                        st.candidate_sigma, st.cp, st.n,
                                                        VEGA_BUMP).calls)]
         ELSE IvAfterVega(st, FSub(st.test_price, st.price),
                          vega_iv_finder(st.s, st.k, st.t, st.r, st.candidate_sigma,
                                         st.cp, st.n, VEGA_BUMP))

\* One pass of `for _ in 0..MAX_ITER`, or the fall-through after the loop.
IvIter(st) ==
    IF st.iter >= MAX_ITER THEN [st EXCEPT !.status = "exhausted"]
    ELSE IF FLt(FAbs(FSub(st.test_price, st.price)), SENSITIVITY)
         THEN [st EXCEPT !.status = "converged"]
         ELSE IvAfterVega(st, FSub(st.test_price, st.price),
                          vega_iv_finder(st.s, st.k, st.t, st.r, st.candidate_sigma,
                                         st.cp, st.n, VEGA_BUMP))

\* The whole loop: iterate until the solver returns.
RECURSIVE IvRun(_)
IvRun(st) == IF st.status # "run" THEN st ELSE IvRun(IvIter(st))

\* option_iv_: the returned volatility.
option_iv_(price, s, k, t, r, candidate_sigma, cp, n) ==
    IvRun(IvInit(price, s, k, t, r, candidate_sigma, cp, n)).candidate_sigma

\* option_iv_scalar.
option_iv_scalar(price, s, k, t, r, candidate_sigma, cp, precision) ==
    option_iv_(price, s, k, t, r, candidate_sigma, cp, precision)

\* ------------------------------------------------------------------------
\* Inputs of the model
\* ------------------------------------------------------------------------

\* Longest input sequence of a batch call.
MaxLen == 2

\* Largest step count (precision) of a call.
MaxSteps == 2

\* The decimal n/d as an f64 literal.
Dec(n, d) == (n * Scale) \div d

Duration(value, factor) == [ value |-> F(value), factor |-> F(factor) ]

\* The requests calls are built from: per-option fields, with the market
\* price (implied volatility only).  sigma is the volatility of a price or
\* Greeks request and the initial guess of an implied-volatility request.
Catalogue ==
    << \* 1: at-the-money call, one year
       [ s |-> F(1), k |-> F(1), t |-> Duration(365, 365), r |-> Dec(5, 100),
         sigma |-> Dec(2, 10), cp |-> "Call", price |-> Dec(1045, 10000) ],
       \* 2: at-the-money put, half a year
       [ s |-> F(1), k |-> F(1), t |-> Duration(180, 360), r |-> Dec(5, 100),
         sigma |-> Dec(4, 10), cp |-> "Put", price |-> Dec(609, 10000) ],
       \* 3: call under a 50% rate (a > u)
       [ s |-> F(1), k |-> F(1), t |-> Duration(365, 365), r |-> Dec(5, 10),
         sigma |-> Dec(2, 10), cp |-> "Call", price |-> Dec(1045, 10000) ],
       \* 4: deep out-of-the-money call
       [ s |-> F(1), k |-> F(3), t |-> Duration(365, 365), r |-> Dec(5, 100),
         sigma |-> Dec(2, 10), cp |-> "Call", price |-> Dec(1045, 10000) ],
       \* 5: in-the-money put quoted below its intrinsic value
       [ s |-> F(1), k |-> Dec(11, 10), t |-> Duration(365, 365), r |-> Dec(5, 100),
         sigma |-> Dec(4, 10), cp |-> "Put", price |-> Dec(5, 100) ],
       \* 6: negative volatility
       [ s |-> F(1), k |-> F(1), t |-> Duration(365, 365), r |-> Dec(5, 100),
         sigma |-> -Dec(2, 10), cp |-> "Put", price |-> Dec(1045, 10000) ],
       \* 7: zero spot
       [ s |-> 0, k |-> F(1), t |-> Duration(365, 365), r |-> Dec(5, 100),
         sigma |-> Dec(2, 10), cp |-> "Call", price |-> Dec(1045, 10000) ],
       \* 8: zero duration factor
       [ s |-> F(1), k |-> F(1), t |-> Duration(365, 0), r |-> Dec(5, 100),
         sigma |-> Dec(2, 10), cp |-> "Put", price |-> Dec(1045, 10000) ],
       \* 9: zero strike
       [ s |-> F(1), k |-> 0, t |-> Duration(365, 365), r |-> Dec(5, 100),
         sigma |-> Dec(2, 10), cp |-> "Call", price |-> Dec(1045, 10000) ],
       \* 10: deep out-of-the-money call quoted at its model price, zero
       [ s |-> F(1), k |-> F(3), t |-> Duration(365, 365), r |-> Dec(5, 100),
         sigma |-> Dec(2, 10), cp |-> "Call", price |-> 0 ] >>

\* Element j (from 1) of the batch that starts at catalogue entry `start`.
Elem(start, j) == Catalogue[((start + j - 2) % Len(Catalogue)) + 1]

ScalarOps == {"price_scalar", "iv_scalar"}
BatchOps == {"price", "iv", "greeks"}

AllFields == {"price", "s", "k", "t", "r", "sigma", "cp"}

\* The sequences a batch operation takes.
Fields(op) == IF op = "iv" THEN AllFields ELSE AllFields \ {"price"}

EqualShape(op, n) == [f \in AllFields |-> IF f \in Fields(op) THEN n ELSE 0]

\* The arguments of a batch call: each field sequence is a prefix, of its own
\* length, of the field's column of the batch.
BatchArgs(op, precision, start, lens) ==
    [ op        |-> op,
      precision |-> precision,
      price     |-> [j \in 1..lens["price"] |-> Elem(start, j).price],
      s         |-> [j \in 1..lens["s"] |-> Elem(start, j).s],
      k         |-> [j \in 1..lens["k"] |-> Elem(start, j).k],
      t         |-> [j \in 1..lens["t"] |-> Elem(start, j).t],
      r         |-> [j \in 1..lens["r"] |-> Elem(start, j).r],
      sigma     |-> [j \in 1..lens["sigma"] |-> Elem(start, j).sigma],
      cp        |-> [j \in 1..lens["cp"] |-> Elem(start, j).cp] ]

\* The arguments of a scalar call.
ScalarArgs(op, precision, q) ==
    [ op |-> op, precision |-> precision, price |-> q.price, s |-> q.s, k |-> q.k,
      t |-> q.t, r |-> q.r, sigma |-> q.sigma, cp |-> q.cp ]

\* ------------------------------------------------------------------------
\* State
\* ------------------------------------------------------------------------

VARIABLES
    args,      \* the arguments of the call in progress
    pc,        \* "start", "loop", "solve", "done" or "panic"
    i,         \* the batch loop's index
    results,   \* the batch's result Vec (prices, ivs or Greeks)
    errors,    \* the batch's Vec<PriceError>
    ret,       \* the scalar call's return value: << >> until it returns
    sv,        \* the locals of option_iv_ for the solve in progress or last made
    calls,     \* log: the lattice evaluations of the last price or Greeks element
    max_read,  \* log: the highest index at which an input sequence was indexed
    lat        \* the locals of option_price_ for the evaluation run step by step

vars == << args, pc, i, results, errors, ret, sv, calls, max_read, lat >>

Idle == [ status |-> "idle", iter |-> 0, updates |-> 0, evals |-> 0,
          candidate_sigma |-> 0, test_price |-> 0 ]

\* No evaluation is run step by step.
LatIdle == [ phase |-> "idle" ]

Init ==
    /\ \E op \in ScalarOps \cup BatchOps, precision \in 0..MaxSteps :
        \/ /\ op \in ScalarOps
           /\ \E start \in 1..Len(Catalogue) :
                args = ScalarArgs(op, precision, Catalogue[start])
           /\ pc = "start"
        \/ /\ op \in BatchOps
           /\ \E n \in 0..MaxLen, start \in 1..Len(Catalogue) :
                args = BatchArgs(op, precision, start, EqualShape(op, n))
           /\ pc = "loop"
        \/ /\ op \in BatchOps
           /\ \E n \in 0..MaxLen, f \in Fields(op), m \in 0..MaxLen :
                /\ m # n
                /\ args = BatchArgs(op, precision, 1,
                                    [EqualShape(op, n) EXCEPT ![f] = m])
           /\ pc = "loop"
    /\ i = 0
    /\ results = << >>
    /\ errors = << >>
    /\ ret = << >>
    /\ sv = Idle
    /\ calls = << >>
    /\ max_read = -1
    /\ lat = LatIdle

\* ------------------------------------------------------------------------
\* Batch loops
\* ------------------------------------------------------------------------

\* Whether vec[i] (i from 0) is inside the slice; indexing outside panics.
InBounds(vec, idx) == idx < Len(vec)

\* vec[i] of the source (i from 0).
At(vec, idx) == vec[idx + 1]

\* Whether every sequence the loop body of `a.op` indexes holds index idx.
AllInBounds(a, idx) == \A f \in Fields(a.op) : InBounds(a[f], idx)

\* let n = s_vec.len().
LoopLen(a) == Len(a.s)

\* A faulty body of the loop of option_price_vector: t_vec[0] for every index.
PriceVectorBodyFirstDuration(a, idx) ==
    Eval(At(a.s, idx), At(a.k, idx), FDiv(to_years(At(a.t, 0)), F(a.precision)),
         At(a.r, idx), At(a.sigma, idx), At(a.cp, idx), a.precision)

\* The body of the loop of option_price_vector for index idx.
PriceVectorBody(a, idx) ==
    Eval(At(a.s, idx), At(a.k, idx), FDiv(to_years(At(a.t, idx)), F(a.precision)),
         At(a.r, idx), At(a.sigma, idx), At(a.cp, idx), a.precision)

\* The body of the loop of greeks for index idx.
GreeksBody(a, idx) ==
    greeks_element(At(a.s, idx), At(a.k, idx), At(a.t, idx), At(a.r, idx),
                   At(a.sigma, idx), At(a.cp, idx), a.precision)

\* The call of option_iv_ in the loop of option_iv_vector for index idx: the
\* solver's state before its loop.
IvVectorBody(a, idx) ==
    IvInit(At(a.price, idx), At(a.s, idx), At(a.k, idx), At(a.t, idx), At(a.r, idx),
           At(a.sigma, idx), At(a.cp, idx), a.precision)

\* The PriceError pushed for an element by each batch loop.
PushedError == "None"

\* The order in which a loop body indexes its input slices.
ReadOrder(op) ==
    IF op = "price" THEN << "t", "s", "k", "r", "sigma", "cp" >>
    ELSE IF op = "iv" THEN << "price", "s", "k", "t", "r", "sigma", "cp" >>
    ELSE << "s", "k", "t", "r", "sigma", "cp" >>

\* The position in ReadOrder of the first slice that does not hold index idx.
FirstOutOfBounds(a, idx) ==
    CHOOSE n \in 1..Len(ReadOrder(a.op)) :
        /\ ~InBounds(a[ReadOrder(a.op)[n]], idx)
        /\ \A m \in 1..(n - 1) : InBounds(a[ReadOrder(a.op)[m]], idx)

\* An index past the end of an input slice: the call panics, after the reads
\* at that index that come before it.
Panic ==
    /\ pc' = "panic"
    /\ max_read' = IF FirstOutOfBounds(args, i) > 1 THEN i ELSE max_read
    /\ UNCHANGED << args, i, results, errors, ret, sv, calls, lat >>

\* The pushes that end a pass of a price or Greeks loop with the element's
\* evaluation e.
Push(e) ==
    /\ results' = Append(results, e.val)
    /\ errors' = Append(errors, PushedError)
    /\ calls' = e.calls
    /\ i' = i + 1
    /\ max_read' = i
    /\ UNCHANGED << args, pc, ret, sv, lat >>

\* One pass of the loop of option_price_vector.
PriceVectorStep ==
    /\ args.op = "price" /\ pc = "loop" /\ i < LoopLen(args)
    /\ IF ~AllInBounds(args, i) THEN Panic ELSE Push(PriceVectorBody(args, i))

\* One pass of the loop of greeks.
GreeksStep ==
    /\ args.op = "greeks" /\ pc = "loop" /\ i < LoopLen(args)
    /\ IF ~AllInBounds(args, i) THEN Panic ELSE Push(GreeksBody(args, i))

\* One pass of the loop of option_iv_vector, up to the first model price of
\* option_iv_.
IvVectorStep ==
    /\ args.op = "iv" /\ pc = "loop" /\ i < LoopLen(args)
    /\ IF ~AllInBounds(args, i) THEN Panic
       ELSE /\ sv' = IvVectorBody(args, i)
            /\ pc' = "solve"
            /\ max_read' = i
            /\ UNCHANGED << args, i, results, errors, ret, calls, lat >>

\* The end of a batch loop: (results, errors) is returned.
VectorReturn ==
    /\ args.op \in BatchOps /\ pc = "loop" /\ i >= LoopLen(args)
    /\ pc' = "done"
    /\ UNCHANGED << args, i, results, errors, ret, sv, calls, max_read, lat >>

\* ------------------------------------------------------------------------
\* Scalar calls and the solver's loop
\* ------------------------------------------------------------------------

\* The return of a scalar price with its evaluation e.
Return(e) ==
    /\ ret' = << e.val >>
    /\ calls' = e.calls
    /\ pc' = "done"
    /\ UNCHANGED << args, i, results, errors, sv, max_read, lat >>

\* option_price_scalar.
PriceScalarCall ==
    /\ args.op = "price_scalar" /\ pc = "start"
    /\ Return(Eval(args.s, args.k, FDiv(to_years(args.t), F(args.precision)),
                   args.r, args.sigma, args.cp, args.precision))

\* option_iv_scalar, up to the first model price of option_iv_.
IvScalarCall ==
    /\ args.op = "iv_scalar" /\ pc = "start"
    /\ sv' = IvInit(args.price, args.s, args.k, args.t, args.r, args.sigma, args.cp,
                    args.precision)
    /\ pc' = "solve"
    /\ UNCHANGED << args, i, results, errors, ret, calls, max_read, lat >>

\* One pass of the loop of option_iv_ (or its fall-through).
NewtonStep ==
    /\ pc = "solve" /\ sv.status = "run"
    /\ sv' = IvIter(sv)
    /\ UNCHANGED << args, pc, i, results, errors, ret, calls, max_read, lat >>

\* option_iv_ returns candidate_sigma into option_iv_scalar's result.
IvScalarReturn ==
    /\ args.op = "iv_scalar" /\ pc = "solve" /\ sv.status # "run"
    /\ ret' = << sv.candidate_sigma >>
    /\ pc' = "done"
    /\ UNCHANGED << args, i, results, errors, sv, calls, max_read, lat >>

\* option_iv_ returns candidate_sigma into the loop of option_iv_vector.
IvVectorReturn ==
    /\ args.op = "iv" /\ pc = "solve" /\ sv.status # "run"
    /\ results' = Append(results, sv.candidate_sigma)
    /\ errors' = Append(errors, PushedError)
    /\ i' = i + 1
    /\ pc' = "loop"
    /\ UNCHANGED << args, ret, sv, calls, max_read, lat >>

Next ==
    \/ PriceVectorStep
    \/ GreeksStep
    \/ IvVectorStep
    \/ VectorReturn
    \/ PriceScalarCall
    \/ IvScalarCall
    \/ NewtonStep
    \/ IvScalarReturn
    \/ IvVectorReturn

Spec == Init /\ [][Next]_vars

\* A step of the call is possible: the call has neither returned nor panicked.
\* Running is ENABLED <<Next>>_vars: every action's guard has pc in "start",
\* "loop" or "solve", and there some guard holds (at "start" the scalar call of
\* args.op; at "loop" the pass of args.op or, past the last index,
\* VectorReturn; at "solve" NewtonStep or, once the solver has returned, the
\* return of args.op), and every action changes pc, i or sv.
Running == pc \notin {"done", "panic"}

\* A call, once entered, runs on: every step of it is eventually taken.  This
\* is WF_vars(Next) written out, with Running for ENABLED <<Next>>_vars.
FairSpec == Spec /\ ([]<>(~Running) \/ []<><<Next>>_vars)

\* ------------------------------------------------------------------------
\* option_price_ step by step
\* ------------------------------------------------------------------------

\* Largest step count of an evaluation run step by step.
MaxLatticeSteps == 3

\* The variables of the calls, which an evaluation run on its own leaves alone.
call_vars == << args, pc, i, results, errors, ret, sv, calls, max_read >>

\* for i in (0..n).rev().
FillRange(n) == 0..(n - 1)

\* for i in 0..=n.
PayoffRange(n) == 0..n

\* for i in (1..=n).rev().
OuterRange(n) == 1..n

\* A faulty inner loop: for j in 0..=i.
InnerRangeInclusive(i_) == 0..i_

\* for j in 0..i.
InnerRange(i_) == 0..(i_ - 1)

\* The arguments of the evaluations run step by step: the requests of the
\* catalogue, each with its duration and with none, with its spot and with the
\* spot a quarter higher, as a call and as a put, on every step count.
LatticeInputs ==
    { [ s       |-> IF raised THEN FAdd(Catalogue[c].s, Dec(1, 4)) ELSE Catalogue[c].s,
        k       |-> Catalogue[c].k,
        delta_t |-> FDiv(IF expired THEN 0 ELSE to_years(Catalogue[c].t), F(n)),
        r       |-> Catalogue[c].r,
        sigma   |-> Catalogue[c].sigma,
        cp      |-> cp,
        n       |-> n ] :
      c \in 1..Len(Catalogue), raised \in BOOLEAN, expired \in BOOLEAN,
      cp \in OptionType, n \in 0..MaxLatticeSteps }

\* The locals of option_price_ once the two buffers are allocated.
LatStart(c) ==
    [ phase        |-> "top",
      in           |-> c,
      q            |-> LatticeParams(c.s, c.k, c.delta_t, c.r, c.sigma, c.cp),
      n            |-> c.n,
      stock_price  |-> [x \in 0..c.n |-> 0],
      option_price |-> [x \in 0..c.n |-> 0],
      i            |-> c.n,
      j            |-> 0,
      idx          |-> {},
      subs         |-> {},
      at           |-> << >>,
      rd           |-> << >>,
      ret          |-> << >> ]

\* The buffer indices the step at hand uses.
Accesses(L) ==
    IF L.phase = "top" THEN {L.n}
    ELSE IF L.phase = "fill" THEN {L.i, L.i + 1}
    ELSE IF L.phase = "payoff" THEN {L.i}
    ELSE IF L.phase = "induct" THEN {L.j, L.j + 1}
    ELSE {0}

\* The results of the usize subtractions of the step at hand.
Subtractions(L) ==
    IF L.phase = "induct" THEN {L.i - 1, (L.i - 1) - L.j} ELSE {}

\* The step at hand neither indexes outside a buffer nor underflows.
Safe(L) ==
    /\ \A x \in Accesses(L) : x >= 0 /\ x <= L.n
    /\ \A x \in Subtractions(L) : x >= 0

\* The position after the end of step 2: the backward induction, or the return.
AfterPayoff(L) ==
    IF OuterRange(L.n) = {} THEN [L EXCEPT !.phase = "return"]
    ELSE [L EXCEPT !.phase = "induct", !.i = L.n, !.j = 0]

\* The position after the end of step 1: step 2.
AfterFill(L) == [L EXCEPT !.phase = "payoff", !.i = 0]

\* stock_price[n] = s * u.powi(n as i32).
TopOf(L) ==
    IF FillRange(L.n) = {}
    THEN AfterFill([L EXCEPT !.stock_price[L.n] = FMul(L.q.s, FPowi(L.q.u, L.n))])
    ELSE [L EXCEPT !.stock_price[L.n] = FMul(L.q.s, FPowi(L.q.u, L.n)),
                   !.phase = "fill", !.i = L.n - 1]

\* stock_price[i] = stock_price[i + 1] * (d/u).
FillOf(L) ==
    IF (L.i - 1) \in FillRange(L.n)
    THEN [L EXCEPT !.stock_price[L.i] =
                       FMul(L.stock_price[L.i + 1], FDiv(L.q.d, L.q.u)),
                   !.i = L.i - 1]
    ELSE AfterFill([L EXCEPT !.stock_price[L.i] =
                                 FMul(L.stock_price[L.i + 1], FDiv(L.q.d, L.q.u))])

\* option_price[i] = (sign * stock_price[i] + base).max(0.0).
PayoffOf(L) ==
    IF (L.i + 1) \in PayoffRange(L.n)
    THEN [L EXCEPT !.option_price[L.i] = Payoff(L.q.sign, L.q.base, L.stock_price[L.i]),
                   !.i = L.i + 1]
    ELSE AfterPayoff([L EXCEPT !.option_price[L.i] =
                                   Payoff(L.q.sign, L.q.base, L.stock_price[L.i])])

\* The position after the pass (i, j) of the backward induction.
AfterNode(L) ==
    IF (L.j + 1) \in InnerRange(L.i) THEN [L EXCEPT !.j = L.j + 1]
    ELSE IF (L.i - 1) \in OuterRange(L.n) THEN [L EXCEPT !.i = L.i - 1, !.j = 0]
    ELSE [L EXCEPT !.phase = "return"]

\* option_price[j] = intrinsic_value.max(continuation_value).
InductOf(L) ==
    AfterNode([L EXCEPT !.option_price[L.j] = NodeValue(L.q, L.option_price, L.i, L.j),
                        !.at = << L.i, L.j >>,
                        !.rd = << L.option_price[L.j], L.option_price[L.j + 1] >>])

\* return option_price[0].
ReturnOf(L) == [L EXCEPT !.phase = "done", !.ret = << L.option_price[0] >>]

\* The step at hand, logged; an index outside a buffer or an underflow panics.
StepOf(L, after) ==
    IF Safe(L)
    THEN [after EXCEPT !.idx = Accesses(L), !.subs = Subtractions(L)]
    ELSE [L EXCEPT !.phase = "panic", !.idx = Accesses(L), !.subs = Subtractions(L)]

LatInit ==
    /\ args = [ op |-> "option_price_" ]
    /\ pc = "lattice"
    /\ i = 0
    /\ results = << >>
    /\ errors = << >>
    /\ ret = << >>
    /\ sv = Idle
    /\ calls = << >>
    /\ max_read = -1
    /\ \E c \in LatticeInputs : lat = LatStart(c)

StockTop ==
    /\ lat.phase = "top"
    /\ lat' = StepOf(lat, TopOf(lat))
    /\ UNCHANGED call_vars

StockFillStep ==
    /\ lat.phase = "fill"
    /\ lat' = StepOf(lat, FillOf(lat))
    /\ UNCHANGED call_vars

PayoffStep ==
    /\ lat.phase = "payoff"
    /\ lat' = StepOf(lat, PayoffOf(lat))
    /\ UNCHANGED call_vars

InductStep ==
    /\ lat.phase = "induct"
    /\ lat' = StepOf(lat, InductOf(lat))
    /\ UNCHANGED call_vars

LatticeReturn ==
    /\ lat.phase = "return"
    /\ lat' = StepOf(lat, ReturnOf(lat))
    /\ UNCHANGED call_vars

LatNext ==
    \/ StockTop
    \/ StockFillStep
    \/ PayoffStep
    \/ InductStep
    \/ LatticeReturn

LatticeSpec == LatInit /\ [][LatNext]_vars

\* ------------------------------------------------------------------------
\* Pricing, then solving the implied volatility from the price
\* ------------------------------------------------------------------------

\* The initial guesses of the solves.
Guesses == { Dec(4, 10), Dec(1, 10) }

\* A scalar pricing call that carries the guess of the solve that follows.
RoundTripInit ==
    /\ \E c \in 1..Len(Catalogue), precision \in 0..MaxSteps, guess \in Guesses :
            args = [ ScalarArgs("price_scalar", precision, Catalogue[c])
                         EXCEPT !.price = guess ]
    /\ pc = "start"
    /\ i = 0
    /\ results = << >>
    /\ errors = << >>
    /\ ret = << >>
    /\ sv = Idle
    /\ calls = << >>
    /\ max_read = -1
    /\ lat = LatIdle

\* The price returned becomes the market price of an implied-volatility call
\* on the same request and step count, from the guess.
SolveFromPrice ==
    /\ args.op = "price_scalar" /\ pc = "done"
    /\ args' = [args EXCEPT !.op = "iv_scalar", !.price = ret[1], !.sigma = args.price]
    /\ pc' = "start"
    /\ ret' = << >>
    /\ UNCHANGED << i, results, errors, sv, calls, max_read, lat >>

RoundTripNext ==
    \/ PriceScalarCall
    \/ SolveFromPrice
    \/ IvScalarCall
    \/ NewtonStep
    \/ IvScalarReturn

RoundTripSpec == RoundTripInit /\ [][RoundTripNext]_vars

\* ------------------------------------------------------------------------
\* Vocabulary of the properties
\* ------------------------------------------------------------------------

\* The lengths of the input sequences of the batch call a.
Lengths(a) == { Len(a[f]) : f \in Fields(a.op) }

\* The input sequences of the batch call a do not all have the same length.
Mismatched(a) == a.op \in BatchOps /\ Cardinality(Lengths(a)) > 1

\* The input sequences of the batch call a all have the same length.
EqualLengths(a) == a.op \in BatchOps /\ Cardinality(Lengths(a)) = 1

\* The length of the shortest input sequence of the batch call a.
ShortestLen(a) == CHOOSE m \in Lengths(a) : \A l \in Lengths(a) : m <= l

\* Element j (from 1) of an equal-length batch call as a scalar request.
Request(a, j) ==
    [ price |-> IF a.op = "iv" THEN a.price[j] ELSE 0,
      s |-> a.s[j], k |-> a.k[j], t |-> a.t[j], r |-> a.r[j],
      sigma |-> a.sigma[j], cp |-> a.cp[j], precision |-> a.precision ]

\* The request of a scalar call.
ScalarRequest(a) ==
    [ price |-> a.price, s |-> a.s, k |-> a.k, t |-> a.t, r |-> a.r,
      sigma |-> a.sigma, cp |-> a.cp, precision |-> a.precision ]

\* Spot, strike, duration factor, steps or volatility is zero or negative.
NonPositive(q) ==
    q.s <= 0 \/ q.k <= 0 \/ q.t.factor <= 0 \/ q.precision <= 0 \/ q.sigma <= 0

\* The request of the element pushed last.
LastRequest == Request(args, Len(results))

\* A solve of the batch loop has returned into the loop; sv is that solve.
SolveReturned == args.op = "iv" /\ pc \in {"loop", "done"} /\ Len(results) >= 1

\* The scalar solve has returned; sv is that solve.
ScalarSolveReturned == args.op = "iv_scalar" /\ pc = "done"

\* The tag a scalar return carries: the return value holds the number alone.
ScalarTag == IF Len(ret) >= 2 THEN ret[2] ELSE "None"

\* ------------------------------------------------------------------------
\* C1
\* ------------------------------------------------------------------------

\* C1 (as the specification states it): when the input sequences of a batch
\* call do not all have the same length, the call does not panic, no sequence
\* is read at an index at or beyond the length of the shortest one, and every
\* entry the call reports is BadParams, none of them a success.
C1_MismatchReportsBadParams ==
    Mismatched(args) =>
        /\ pc # "panic"
        /\ max_read < ShortestLen(args)
        /\ \A j \in 1..Len(errors) : errors[j] = "BadParams"

\* ------------------------------------------------------------------------
\* C2
\* ------------------------------------------------------------------------

\* C2 (as the specification states it): a price request, scalar or batch
\* element, whose spot, strike, duration factor, steps or volatility is zero
\* or negative is tagged BadParams and no lattice evaluation is made for it.
C2_NonPositiveIsBadParams ==
    /\ (args.op = "price" /\ Len(results) >= 1 /\ NonPositive(LastRequest)) =>
            /\ errors[Len(errors)] = "BadParams"
            /\ calls = << >>
    /\ (args.op = "price_scalar" /\ pc = "done" /\ NonPositive(ScalarRequest(args))) =>
            /\ ScalarTag = "BadParams"
            /\ calls = << >>

\* ------------------------------------------------------------------------
\* C3
\* ------------------------------------------------------------------------

\* C3 (as the specification states it): a solve that made all MAX_ITER Newton
\* iterations without meeting the tolerance returns its last candidate tagged
\* NonConvergence, in the batch path and in the scalar path.
C3_ExhaustedIsNonConvergence ==
    /\ (SolveReturned /\ sv.status = "exhausted") =>
            /\ results[Len(results)] = sv.candidate_sigma
            /\ errors[Len(errors)] = "NonConvergence"
    /\ (ScalarSolveReturned /\ sv.status = "exhausted") =>
            /\ ret[1] = sv.candidate_sigma
            /\ ScalarTag = "NonConvergence"

\* ------------------------------------------------------------------------
\* C4
\* ------------------------------------------------------------------------

\* C4 (as the specification states it): a solve that stopped on a vega
\* estimate below 1e-10 in magnitude returns the candidate it held at that
\* iteration, not updated, tagged NonConvergence.
C4_SmallVegaIsNonConvergence ==
    /\ (SolveReturned /\ sv.status = "vega") =>
            /\ results[Len(results)] = sv.candidate_sigma
            /\ errors[Len(errors)] = "NonConvergence"
    /\ (ScalarSolveReturned /\ sv.status = "vega") =>
            /\ ret[1] = sv.candidate_sigma
            /\ ScalarTag = "NonConvergence"

\* ------------------------------------------------------------------------
\* C5
\* ------------------------------------------------------------------------

\* C5: every solve terminates, after at most MAX_ITER passes of the loop and
\* at most MAX_ITER updates of the candidate volatility, each pass making at
\* most three lattice evaluations after the first one: the solver never holds
\* more than MAX_ITER iterations, and a call that is in the solver leaves it.
C5_SolverTerminates ==
    /\ [](/\ sv.iter <= MAX_ITER
          /\ sv.updates <= MAX_ITER
          /\ sv.evals <= 1 + 3 * MAX_ITER
          /\ (sv.status = "exhausted" => sv.updates = MAX_ITER))
    /\ ((pc = "solve") ~> (pc # "solve"))

\* A solve used the whole budget: MAX_ITER updates, then the fall-through.
C5_Witness ==
    /\ pc \in {"loop", "done"}
    /\ args.op \in {"iv", "iv_scalar"}
    /\ sv.status = "exhausted"
    /\ sv.updates = MAX_ITER

\* ------------------------------------------------------------------------
\* C6
\* ------------------------------------------------------------------------

\* The Greeks of one request from the scalar operations: centred differences
\* of option_price_scalar in spot, vega, and theta without a precomputed price.
GreeksScalar(q) ==
    [ delta |-> FDiv(FSub(option_price_scalar(FAdd(q.s, S_BUMP), q.k, q.t, q.r,
                                              q.sigma, q.cp, q.precision),
                          option_price_scalar(FSub(q.s, S_BUMP), q.k, q.t, q.r,
                                              q.sigma, q.cp, q.precision)),
                     FMul(F(2), S_BUMP)),
      gamma |-> FDiv(FAdd(FSub(option_price_scalar(FAdd(q.s, S_BUMP), q.k, q.t, q.r,
                                                   q.sigma, q.cp, q.precision),
                               FMul(F(2),
                                    option_price_scalar(q.s, q.k, q.t, q.r, q.sigma,
                                                        q.cp, q.precision))),
                          option_price_scalar(FSub(q.s, S_BUMP), q.k, q.t, q.r,
                                              q.sigma, q.cp, q.precision)),
                     FMul(S_BUMP, S_BUMP)),
      vega  |-> vega(q.s, q.k, q.t, q.r, q.sigma, q.cp, q.precision, SIGMA_BUMP).val,
      theta |-> theta(q.s, q.k, q.t, q.r, q.sigma, q.cp, q.precision, NoPrice).val ]

\* The scalar operation of the batch operation op applied to the request q.
ScalarResult(op, q) ==
    IF op = "price"
    THEN option_price_scalar(q.s, q.k, q.t, q.r, q.sigma, q.cp, q.precision)
    ELSE IF op = "iv"
    THEN option_iv_scalar(q.price, q.s, q.k, q.t, q.r, q.sigma, q.cp, q.precision)
    ELSE GreeksScalar(q)

\* Every element of the equal-length batch call a holds domain-valid values.
DomainValid(a) == \A j \in 1..Len(a.s) : ~NonPositive(Request(a, j))

\* C6: a batch call whose input sequences all have length n and hold
\* domain-valid values returns n results and n errors; result j is the scalar
\* operation applied to element j of every input sequence with the shared
\* step count, in input order, and every error entry is None.
C6_BatchIsScalarPerElement ==
    (pc = "done" /\ EqualLengths(args) /\ DomainValid(args)) =>
        /\ Len(results) = Len(args.s)
        /\ Len(errors) = Len(args.s)
        /\ \A j \in 1..Len(args.s) :
            /\ results[j] = ScalarResult(args.op, Request(args, j))
            /\ errors[j] = "None"

\* A returned price batch of two domain-valid elements with different
\* durations and different prices.
C6_Witness ==
    /\ pc = "done" /\ args.op = "price"
    /\ EqualLengths(args) /\ DomainValid(args)
    /\ Len(results) = 2
    /\ args.t[1] # args.t[2]
    /\ results[1] # results[2]

\* ------------------------------------------------------------------------
\* C7
\* ------------------------------------------------------------------------

\* The solve of the request q ends without meeting the tolerance.
SolveFails(q) ==
    IvRun(IvInit(q.price, q.s, q.k, q.t, q.r, q.sigma, q.cp, q.precision)).status
        \in {"exhausted", "vega"}

\* The element q of a batch call of op fails: bad parameters, or a solve that
\* does not converge.
Fails(op, q) == NonPositive(q) \/ (op = "iv" /\ SolveFails(q))

\* C7 (as the specification states it): a batch call with a failing element
\* returns; the failure is reported in that element's error entry and only
\* there, and the result of every element that does not fail is the one the
\* scalar operation gives for it alone.
C7_FailureIsLocal ==
    (pc = "done" /\ EqualLengths(args)) =>
        /\ Len(results) = Len(args.s)
        /\ Len(errors) = Len(args.s)
        /\ \A j \in 1..Len(args.s) :
            /\ (errors[j] # "None") <=> Fails(args.op, Request(args, j))
            /\ ~Fails(args.op, Request(args, j)) =>
                    results[j] = ScalarResult(args.op, Request(args, j))

\* ------------------------------------------------------------------------
\* C8
\* ------------------------------------------------------------------------

\* C8 (as the specification states it): the time-bumped evaluation of theta,
\* the last of an element's Greeks evaluations, runs at the same step count
\* with the per-step interval (tYears + 1/365) / steps.
C8_ThetaBumpsTotalTime ==
    (args.op = "greeks" /\ Len(results) >= 1) =>
        /\ calls[Len(calls)].n = args.precision
        /\ calls[Len(calls)].delta_t =
               FDiv(FAdd(to_years(LastRequest.t), FDiv(F(1), F(365))),
                    F(args.precision))

\* ------------------------------------------------------------------------
\* C9
\* ------------------------------------------------------------------------

\* The arguments of the base evaluation of the request q.
BaseCall(q) ==
    [ s |-> q.s, k |-> q.k, delta_t |-> FDiv(to_years(q.t), F(q.precision)),
      r |-> q.r, sigma |-> q.sigma, cp |-> q.cp, n |-> q.precision ]

\* The lattice value of the logged evaluation c.
PriceOf(c) == option_price_(c.s, c.k, c.delta_t, c.r, c.sigma, c.cp, c.n)

\* C9: the Greeks of one request make exactly 6 lattice evaluations: the base
\* price, two with the spot bumped up and down, two with the volatility bumped
\* up and down, and one that differs from the base in the time step alone;
\* gamma and theta are both computed from the one base price.
C9_SixEvaluations ==
    (args.op = "greeks" /\ Len(results) >= 1) =>
        /\ Len(calls) = 6
        /\ calls[1] = BaseCall(LastRequest)
        /\ calls[2] = [BaseCall(LastRequest) EXCEPT !.s = FAdd(@, S_BUMP)]
        /\ calls[3] = [BaseCall(LastRequest) EXCEPT !.s = FSub(@, S_BUMP)]
        /\ calls[4] = [BaseCall(LastRequest) EXCEPT !.sigma = FAdd(@, SIGMA_BUMP)]
        /\ calls[5] = [BaseCall(LastRequest) EXCEPT !.sigma = FSub(@, SIGMA_BUMP)]
        /\ calls[6] = [BaseCall(LastRequest) EXCEPT !.delta_t = calls[6].delta_t]
        /\ results[Len(results)].gamma =
               FDiv(FAdd(FSub(PriceOf(calls[2]), FMul(F(2), PriceOf(calls[1]))),
                         PriceOf(calls[3])),
                    FMul(S_BUMP, S_BUMP))
        /\ results[Len(results)].theta =
               FDiv(FSub(PriceOf(calls[6]), PriceOf(calls[1])), FDiv(F(1), F(365)))

\* The Greeks of a domain-valid request on two steps were computed, the
\* time-bumped evaluation on a longer step than the base one.
C9_Witness ==
    /\ args.op = "greeks" /\ Len(results) >= 1
    /\ ~NonPositive(LastRequest)
    /\ args.precision >= 2
    /\ Len(calls) = 6
    /\ calls[6].delta_t > calls[1].delta_t
    /\ results[Len(results)].theta # 0

\* ------------------------------------------------------------------------
\* C10
\* ------------------------------------------------------------------------

\* The risk-neutral probability of the logged evaluation c.
ProbabilityOf(c) == LatticeParams(c.s, c.k, c.delta_t, c.r, c.sigma, c.cp).p

\* p is a number outside [0, 1].
OutsideUnit(p) == ~IsNaN(p) /\ (p < 0 \/ p > F(1))

\* C10 (as the specification states it): a price request whose lattice has
\* its probability p outside [0, 1] is reported as BadParams, never as a
\* success.
C10_ProbabilityGuard ==
    /\ (args.op = "price" /\ Len(results) >= 1
            /\ OutsideUnit(ProbabilityOf(calls[1]))) =>
            errors[Len(errors)] = "BadParams"
    /\ (args.op = "price_scalar" /\ pc = "done"
            /\ OutsideUnit(ProbabilityOf(calls[1]))) =>
            ScalarTag = "BadParams"

\* ------------------------------------------------------------------------
\* C11
\* ------------------------------------------------------------------------

\* v is a number and is >= 0.
NonNegative(v) == ~IsNaN(v) /\ v >= 0

\* The arguments c of an evaluation are domain-valid: spot, strike,
\* volatility and steps positive, and a time step of a duration >= 0.
ValidEvaluation(c) ==
    c.s > 0 /\ c.k > 0 /\ c.sigma > 0 /\ c.n > 0 /\ IsFin(c.delta_t) /\ c.delta_t >= 0

\* C11: in an evaluation of domain-valid arguments every value of the
\* option-value buffer, at the terminal level and after each update of the
\* backward induction, is >= 0, and so is the price returned.
C11_PriceNonNegative ==
    (lat.phase # "idle" /\ ValidEvaluation(lat.in)) =>
        /\ lat.phase # "panic"
        /\ \A x \in 0..lat.n : NonNegative(lat.option_price[x])
        /\ lat.phase = "done" => NonNegative(lat.ret[1])

\* An evaluation of domain-valid arguments on two steps or more returned a
\* positive price from a buffer that holds a zero as well.
C11_Witness ==
    /\ lat.phase = "done" /\ ValidEvaluation(lat.in)
    /\ lat.n >= 2
    /\ lat.ret[1] > 0
    /\ \E x \in 0..lat.n : lat.option_price[x] = 0

\* ------------------------------------------------------------------------
\* C12
\* ------------------------------------------------------------------------

\* The solve of a price computed from the same request has returned.
RoundTripDone == args.op = "iv_scalar" /\ pc = "done" /\ Len(calls) = 1

\* The volatility the price was computed at.
PricedAt == calls[1].sigma

\* The volatility returned is within 0.002 of the one the price was computed at.
Recovered == Abs(ret[1] - PricedAt) < Dec(2, 1000)

AtTheMoney(a) == a.k = a.s /\ a.r = Dec(5, 100)

RECURSIVE NodeOf(_, _, _)
NodeOf(L, level, j) ==
    IF level >= L.n
    THEN Payoff(L.q.sign, L.q.base, L.stock_price[j])
    ELSE FMax(Payoff(L.q.sign, L.q.base,
                     FMul(FMul(L.q.s, FPowi(L.q.u, j)), FPowi(L.q.d, level - j))),
              FMul(L.q.df,
                   FAdd(FMul(L.q.p, NodeOf(L, level + 1, j + 1)),
                        FMul(FSub(F(1), L.q.p), NodeOf(L, level + 1, j)))))

\* C13: the backward induction over the one buffer computes the recursion
\* over the two-dimensional lattice.  Before the pass (i, j) the buffer holds
\* level i - 1 below j and level i from j to i; the values the last pass read
\* as V[j] and V[j + 1] were nodes j and j + 1 of its level, and the value it
\* wrote is node j of the level below; the value returned is the root node,
\* and is the value of option_price_.
C13_InPlaceInduction ==
    /\ lat.phase = "induct" =>
            /\ \A x \in 0..(lat.j - 1) : lat.option_price[x] = NodeOf(lat, lat.i - 1, x)
            /\ \A x \in lat.j..lat.i : lat.option_price[x] = NodeOf(lat, lat.i, x)
    /\ (lat.phase \in {"induct", "return", "done"} /\ lat.at # << >>) =>
            /\ lat.rd = << NodeOf(lat, lat.at[1], lat.at[2]),
                           NodeOf(lat, lat.at[1], lat.at[2] + 1) >>
            /\ lat.option_price[lat.at[2]] = NodeOf(lat, lat.at[1] - 1, lat.at[2])
    /\ lat.phase \in {"return", "done"} => lat.option_price[0] = NodeOf(lat, 0, 0)
    /\ lat.phase = "done" =>
            /\ lat.ret = << NodeOf(lat, 0, 0) >>
            /\ lat.ret[1] = option_price_(lat.in.s, lat.in.k, lat.in.delta_t, lat.in.r,
                                          lat.in.sigma, lat.in.cp, lat.in.n)

\* In the middle of a level of an induction on three steps or more, the pass
\* before wrote a value that differs from the one it read in the same slot.
C13_Witness ==
    /\ lat.phase = "induct" /\ lat.n >= 3
    /\ lat.j >= 1 /\ lat.j < lat.i
    /\ lat.at = << lat.i, lat.j - 1 >>
    /\ lat.option_price[lat.j - 1] # lat.rd[1]
    /\ lat.option_price[lat.j] > 0

\* ------------------------------------------------------------------------
\* C14
\* ------------------------------------------------------------------------

\* The payoff of immediate exercise: max(spot - strike, 0) for a call and
\* max(strike - spot, 0) for a put.
ImmediatePayoff(c) ==
    IF c.cp = "Call" THEN FMax(FSub(c.s, c.k), 0) ELSE FMax(FSub(c.k, c.s), 0)

\* An evaluation on one step or more whose time to expiry is zero.
Expired(c) == c.n > 0 /\ c.delta_t = 0

\* C14: with a total time to expiry of zero and one step or more, the
\* lattice returns the immediate payoff, and never panics on the way.
C14_ExpiredReturnsPayoff ==
    (lat.phase # "idle" /\ Expired(lat.in)) =>
        /\ lat.phase # "panic"
        /\ lat.phase = "done" => lat.ret = << ImmediatePayoff(lat.in) >>

\* An expired evaluation on two steps or more returned a positive payoff
\* although the probability, and with it every continuation value, is NaN.
C14_Witness ==
    /\ lat.phase = "done" /\ Expired(lat.in) /\ lat.n >= 2
    /\ lat.q.p = NaN
    /\ IsFin(lat.ret[1]) /\ lat.ret[1] > 0

\* ------------------------------------------------------------------------
\* C15
\* ------------------------------------------------------------------------

\* A solve is under way or has returned, and sv is that solve.
SolveKnown ==
    \/ args.op \in {"iv", "iv_scalar"} /\ pc = "solve"
    \/ SolveReturned
    \/ ScalarSolveReturned

\* The initial guess of the solve sv.
SolveGuess ==
    IF args.op = "iv_scalar" THEN args.sigma
    ELSE IF pc = "solve" THEN At(args.sigma, i)
    ELSE LastRequest.sigma

\* C15: the solver checks convergence before it estimates vega and spends
\* three lattice evaluations per update: with k updates made it has run
\* 1 + 3k evaluations while it iterates and when it ends by convergence or by
\* exhaustion of the budget, and 1 + 3k + 2 when it ends by the vega
\* threshold; a guess within tolerance is returned unchanged after one
\* evaluation.
C15_ThreeEvaluationsPerUpdate ==
    SolveKnown =>
        /\ sv.status \in {"run", "converged", "exhausted"} =>
                sv.evals = 1 + 3 * sv.updates
        /\ sv.status = "vega" => sv.evals = 1 + 3 * sv.updates + 2
        /\ (sv.status = "converged" /\ sv.updates = 0) =>
                /\ sv.evals = 1
                /\ sv.candidate_sigma = SolveGuess

\* A solve whose guess was within tolerance has returned it.
C15_Witness ==
    /\ SolveKnown
    /\ sv.status = "converged" /\ sv.updates = 0 /\ sv.evals = 1
    /\ sv.candidate_sigma = SolveGuess

\* ------------------------------------------------------------------------
\* C16
\* ------------------------------------------------------------------------

\* The domain a clamp of the candidate would keep it in: [1e-6, 5.0].
InSaneDomain(sigma) == IsFin(sigma) /\ sigma >= Dec(1, 1000000) /\ sigma <= F(5)

\* C16 (as the specification states it): after every Newton update the
\* candidate volatility lies within [1e-6, 5.0].  The code assigns
\* candidate_sigma - error / vega_value as it is, so this does not hold of it.
C16_CandidateClamped ==
    (SolveKnown /\ sv.updates >= 1) => InSaneDomain(sv.candidate_sigma)

\* ------------------------------------------------------------------------
\* C17
\* ------------------------------------------------------------------------

\* C17: for every step count n >= 0 the two buffers hold n + 1 slots, every
\* step of the lattice indexes them within 0..n (the read of
\* option_price[j + 1] included), the subtractions i - 1 and time_step - j
\* give no negative result, and so the evaluation never panics.
C17_IndicesAndSubtractionsInRange ==
    lat.phase # "idle" =>
        /\ lat.phase # "panic"
        /\ DOMAIN lat.stock_price = 0..lat.n
        /\ DOMAIN lat.option_price = 0..lat.n
        /\ lat.idx \subseteq 0..lat.n
        /\ \A x \in lat.subs : x >= 0

\* The last pass of the first level of an induction on two steps or more
\* read option_price[n] as option_price[j + 1], with no down move left.
C17_Witness ==
    /\ lat.n >= 2
    /\ lat.at = << lat.n, lat.n - 1 >>
    /\ lat.idx = {lat.n - 1, lat.n}
    /\ lat.subs = {lat.n - 1, 0}

====
